---- MODULE Spec2Model ----
(***************************************************************************)
(* Model of the retirement planning form (src/src/RetirementForm.jsx):     *)
(* the form state and its change handler, validateInputs, the Monte Carlo  *)
(* accumulation (simulateAccumulation), the monthly decumulation loop      *)
(* (simulateDecumulation) and handleCalculate, which chains them.          *)
(*                                                                         *)
(* Numbers.  JavaScript numbers are modelled in fixed point: a number x is *)
(* the integer x * Scale, rounded down.  parseInt results (ages, fund      *)
(* counts) are plain integers.  NaN is the value NaN below, undefined is   *)
(* Undefined; every comparison goes through the Js* operators, which are   *)
(* false on NaN as in JavaScript.  Form strings are sequences of one-      *)
(* character strings, so that parseFloat, parseInt and the implicit        *)
(* string-to-number coercion are computed character by character.          *)
(***************************************************************************)
EXTENDS Integers, Sequences, FiniteSets, TLC

\* Fixed-point resolution: one currency unit (or one percent, one year) is Scale.
Scale == 10

NaN == 0 - 2000000000
Undefined == 0 - 2000000001

IsNaN(x) == x = NaN
JsLt(a, b) == a # NaN /\ b # NaN /\ a < b
JsLe(a, b) == a # NaN /\ b # NaN /\ a <= b
JsGt(a, b) == JsLt(b, a)
JsGe(a, b) == JsLe(b, a)

Min(a, b) == IF a <= b THEN a ELSE b
Max(a, b) == IF a >= b THEN a ELSE b

RECURSIVE Pow10(_)
Pow10(n) == IF n <= 0 THEN 1 ELSE 10 * Pow10(n - 1)

\* x * num / den on non-negative fixed-point values, rounded down.
MulDiv(x, num, den) == (x * num) \div den

RECURSIVE SumSeq(_)
SumSeq(s) == IF s = <<>> THEN 0 ELSE Head(s) + SumSeq(Tail(s))

(***************************************************************************)
(* String to number conversions                                            *)
(***************************************************************************)
Digits == {"0", "1", "2", "3", "4", "5", "6", "7", "8", "9"}
HexLetters == {"a", "b", "c", "d", "e", "f"}

DigitVal(c) ==
    CASE c = "0" -> 0 [] c = "1" -> 1 [] c = "2" -> 2 [] c = "3" -> 3
      [] c = "4" -> 4 [] c = "5" -> 5 [] c = "6" -> 6 [] c = "7" -> 7
      [] c = "8" -> 8 [] c = "9" -> 9 [] c = "a" -> 10 [] c = "b" -> 11
      [] c = "c" -> 12 [] c = "d" -> 13 [] c = "e" -> 14 [] c = "f" -> 15
      [] OTHER -> 0

RECURSIVE SkipWs(_)
SkipWs(s) == IF s # <<>> /\ Head(s) = " " THEN SkipWs(Tail(s)) ELSE s

RECURSIVE TrimRight(_)
TrimRight(s) ==
    IF s # <<>> /\ s[Len(s)] = " " THEN TrimRight(SubSeq(s, 1, Len(s) - 1)) ELSE s

\* Length of the longest prefix of s made of characters of cs.
RECURSIVE PrefixLen(_, _)
PrefixLen(s, cs) ==
    IF s # <<>> /\ Head(s) \in cs THEN 1 + PrefixLen(Tail(s), cs) ELSE 0

\* Value of a digit string in the given radix.
RECURSIVE RadixValue(_, _)
RadixValue(s, radix) ==
    IF s = <<>> THEN 0
    ELSE RadixValue(SubSeq(s, 1, Len(s) - 1), radix) * radix + DigitVal(s[Len(s)])

Drop(s, n) == SubSeq(s, n + 1, Len(s))

\* Length of a leading sign, and whether it is a minus.
SignLen(s) == IF s # <<>> /\ Head(s) \in {"+", "-"} THEN 1 ELSE 0
IsNeg(s) == s # <<>> /\ Head(s) = "-"
Signed(neg, mag) == IF neg THEN -mag ELSE mag

\* Length of the fraction (the dot and its digits) at the head of r, after ni
\* integer digits: a dot needs a digit on one of its sides.
FracLen(r, ni) ==
    IF r # <<>> /\ Head(r) = "." /\ ni + PrefixLen(Tail(r), Digits) > 0
    THEN 1 + PrefixLen(Tail(r), Digits) ELSE 0

\* Length of the exponent part at the head of r (e, sign, digits), 0 without digits.
ExpLen(r) ==
    IF r # <<>> /\ Head(r) \in {"e", "E"}
       /\ PrefixLen(Drop(r, 1 + SignLen(Tail(r))), Digits) > 0
    THEN 1 + SignLen(Tail(r)) + PrefixLen(Drop(r, 1 + SignLen(Tail(r))), Digits)
    ELSE 0

\* Value of the exponent part of length el at the head of r.
ExpValue(r, el) ==
    IF el = 0 THEN 0
    ELSE Signed(IsNeg(Tail(r)), RadixValue(SubSeq(r, 2 + SignLen(Tail(r)), el), 10))

\* mant * 10^net in fixed point, rounded down.
Magnitude(mant, net) ==
    IF net >= 0 THEN mant * Pow10(net) * Scale ELSE (mant * Scale) \div Pow10(-net)

\* The literal made of sl sign characters, then ni digits, dl fraction characters
\* and el exponent characters of u.
ScanResult(u, sl, neg, ni, dl, el) ==
    IF ni + dl = 0 THEN [len |-> 0, val |-> NaN]
    ELSE [len |-> sl + ni + dl + el,
          val |-> Signed(neg,
                    Magnitude(RadixValue(SubSeq(u, 1, ni) \o SubSeq(u, ni + 2, ni + dl), 10),
                              ExpValue(Drop(u, ni + dl), el) - Max(dl - 1, 0)))]

ScanExponent(u, sl, neg, ni, dl) ==
    ScanResult(u, sl, neg, ni, dl, IF ni + dl = 0 THEN 0 ELSE ExpLen(Drop(u, ni + dl)))

ScanFraction(u, sl, neg, ni) == ScanExponent(u, sl, neg, ni, FracLen(Drop(u, ni), ni))

\* The longest prefix of s that is a StrDecimalLiteral (sign, digits, fraction,
\* exponent): its length and its value in fixed point; len = 0 when there is none.
ScanDecimal(s) ==
    ScanFraction(Drop(s, SignLen(s)), SignLen(s), IsNeg(s),
                 PrefixLen(Drop(s, SignLen(s)), Digits))

\* parseFloat(s): leading white space is skipped, then the longest decimal prefix.
ParseFloat(s) == ScanDecimal(SkipWs(s)).val

\* The longest prefix of v made of digits cs of the radix; NaN when it is empty.
RadixPrefix(v, cs, radix, neg) ==
    IF PrefixLen(v, cs) = 0 THEN NaN
    ELSE Signed(neg, RadixValue(SubSeq(v, 1, PrefixLen(v, cs)), radix))

IsHex(u) == Len(u) >= 2 /\ u[1] = "0" /\ u[2] \in {"x", "X"}

ParseIntDigits(u, neg) ==
    IF IsHex(u) THEN RadixPrefix(Drop(u, 2), Digits \cup HexLetters, 16, neg)
    ELSE RadixPrefix(u, Digits, 10, neg)

ParseIntTrimmed(t) == ParseIntDigits(Drop(t, SignLen(t)), IsNeg(t))

\* parseInt(s) with no radix: white space, sign, an optional 0x prefix, then the
\* longest prefix of digits of the radix; NaN when that prefix is empty.
ParseInt(s) == ParseIntTrimmed(SkipWs(s))

WholeDecimal(t, d) == IF d.len = Len(t) THEN d.val ELSE NaN

ToNumberTrimmed(t) ==
    IF t = <<>> THEN 0
    ELSE IF IsHex(t)
         THEN IF Len(t) > 2 /\ PrefixLen(Drop(t, 2), Digits \cup HexLetters) = Len(t) - 2
              THEN RadixValue(Drop(t, 2), 16) * Scale ELSE NaN
         ELSE WholeDecimal(t, ScanDecimal(t))

\* ToNumber(s), the coercion applied by the binary minus: the whole trimmed string
\* must be a numeric literal; the empty string is 0.
ToNumber(s) == ToNumberTrimmed(TrimRight(SkipWs(s)))

(***************************************************************************)
(* State                                                                   *)
(***************************************************************************)
VARIABLES
    formData,                  \* useState: the form fields, all strings
    errors,                    \* useState: field name -> message
    accumulationChartData,     \* useState: the five output slots
    accumulationTableData,
    decumulationChartData,
    monthlyIncomeChartData,
    annualIncomeChartData,
    pc,                        \* position inside handleCalculate ("idle" outside it)
    valid,                     \* what the last validateInputs call returned
    changes,                   \* number of change events so far
    results,                   \* simulateAccumulation: yearlyBalances of every run
    p25, p50, p75,             \* simulateAccumulation: the percentile sequences
    \* the locals of simulateDecumulation
    startingPot, pots, fundBalances, months, age, withdrawal, withdrawals,
    annualWithdrawals, currentYearWithdrawals, movedFunds, currentDrawdownFixed,
    currentStatePensionAnnual, currentStatePensionMonthly,
    statePensionMonthlyValues, statePensionAnnualValues,
    decumulationResults        \* handleCalculate: what simulateDecumulation returned

formVars == <<formData, errors, changes>>
outVars == <<accumulationChartData, accumulationTableData, decumulationChartData,
             monthlyIncomeChartData, annualIncomeChartData>>
accVars == <<results, p25, p50, p75>>
potVars == <<pots, movedFunds>>
seriesVars == <<fundBalances, withdrawals, annualWithdrawals,
                statePensionMonthlyValues, statePensionAnnualValues>>
runningVars == <<currentYearWithdrawals, currentDrawdownFixed,
                 currentStatePensionAnnual, currentStatePensionMonthly>>
decVars == <<startingPot, potVars, months, age, withdrawal, seriesVars, runningVars,
             decumulationResults>>
vars == <<formVars, outVars, pc, valid, accVars, decVars>>

Null == [null |-> TRUE]

(***************************************************************************)
(* Constants of the component                                              *)
(***************************************************************************)
FundNames == {"Future Advantage 1", "Future Advantage 2", "Future Advantage 3",
              "Future Advantage 4", "Future Advantage 5"}

\* fundData: annual return and volatility, in 1/10000.
RateDen == 10000
fundData(fund) ==
    CASE fund = "Future Advantage 1" -> [return |-> 250, volatility |-> 500]
      [] fund = "Future Advantage 2" -> [return |-> 300, volatility |-> 556]
      [] fund = "Future Advantage 3" -> [return |-> 350, volatility |-> 799]
      [] fund = "Future Advantage 4" -> [return |-> 450, volatility |-> 1151]
      [] fund = "Future Advantage 5" -> [return |-> 530, volatility |-> 1464]

STANDARD_STATE_PENSION_ANNUAL == 11960

\* The initial form state of useState.
InitialFormData ==
    [ageToLowRiskFund |-> <<>>,
     numFunds |-> <<"3">>,
     funds |-> <<"Future Advantage 1", "Future Advantage 3", "Future Advantage 5">>,
     age |-> <<>>,
     salary |-> <<>>,
     currentPot |-> <<>>,
     contributionRate |-> <<>>,
     retirementAge |-> <<>>,
     fundSelection |-> "Future Advantage 5",
     drawdownType |-> "percentage",
     drawdownPercentage |-> <<>>,
     drawdownFixed |-> <<>>,
     drawdownInitialPotPercentage |-> <<>>,
     inflationRate |-> <<>>,
     includeStatePension |-> "Yes - Standard",
     customStatePensionAnnual |-> <<>>]

EmptyErrors == [n \in {} |-> ""]

(***************************************************************************)
(* handleChange                                                            *)
(***************************************************************************)
\* The characters of the input names the component renders.
NameChars(name) ==
    CASE name = "fundSelection" ->
           <<"f", "u", "n", "d", "S", "e", "l", "e", "c", "t", "i", "o", "n">>
      [] name = "fund0" -> <<"f", "u", "n", "d", "0">>
      [] name = "fund1" -> <<"f", "u", "n", "d", "1">>
      [] name = "fund2" -> <<"f", "u", "n", "d", "2">>
      [] name = "fund3" -> <<"f", "u", "n", "d", "3">>
      [] name = "fund4" -> <<"f", "u", "n", "d", "4">>
      [] name = "numFunds" -> <<"n", "u", "m", "F", "u", "n", "d", "s">>
      [] name = "age" -> <<"a", "g", "e">>
      [] name = "ageToLowRiskFund" ->
           <<"a", "g", "e", "T", "o", "L", "o", "w", "R", "i", "s", "k", "F", "u", "n", "d">>
      [] OTHER -> <<"o", "t", "h", "e", "r">>

\* name.startsWith("fund")
StartsWithFund(name) ==
    LET c == NameChars(name)
    IN  Len(c) >= 4 /\ SubSeq(c, 1, 4) = <<"f", "u", "n", "d">>

\* parseInt(name.replace("fund", "")) for a name that starts with "fund"
FundIndex(name) == ParseInt(Drop(NameChars(name), 4))

\* newFunds[index] = value on a copy of funds: an index that is NaN sets a property
\* and no element; an index past the end leaves holes before it.
SetFund(funds, index, value) ==
    IF IsNaN(index) \/ index < 0 THEN funds
    ELSE [i \in 1..Max(Len(funds), index + 1) |->
             IF i = index + 1 THEN value
             ELSE IF i <= Len(funds) THEN funds[i] ELSE "hole"]

\* A faulty variant of ResizeFunds: the list is cut and never filled up.
ResizeFundsTruncateOnly(funds, num) == SubSeq(funds, 1, Min(Len(funds), Max(num, 0)))

\* funds.slice(0, num).concat(Array(Math.max(0, num - funds.length)).fill(...))
ResizeFunds(funds, num) ==
    LET kept == SubSeq(funds, 1, Min(Len(funds), Max(num, 0)))
    IN  kept \o [i \in 1..Max(0, num - Len(funds)) |-> "Future Advantage 1"]

\* {...errors, [name]: ""}
ClearError(errs, name) ==
    [n \in (DOMAIN errs) \cup {name} |-> IF n = name THEN "" ELSE errs[n]]

ChangedFormData(fd, name, value) ==
    IF StartsWithFund(name)
    THEN [fd EXCEPT !.funds = SetFund(fd.funds, FundIndex(name), value)]
    ELSE IF name = "numFunds"
         THEN [fd EXCEPT !.numFunds = value, !.funds = ResizeFunds(fd.funds, ParseInt(value))]
         ELSE [fd EXCEPT ![name] = value]

(***************************************************************************)
(* validateInputs                                                          *)
(***************************************************************************)
Label(name) ==
    CASE name = "age" -> "Current Age"
      [] name = "salary" -> "Salary"
      [] name = "currentPot" -> "Current Pot"
      [] name = "contributionRate" -> "Contribution Rate"
      [] name = "retirementAge" -> "Retirement Age"
      [] name = "ageToLowRiskFund" -> "Age to Low Risk Fund"
      [] name = "inflationRate" -> "Inflation Rate"
      [] name = "numFunds" -> "Number of Funds"
      [] name = "drawdownPercentage" -> "Drawdown Percentage"
      [] name = "drawdownFixed" -> "Fixed Drawdown Amount"
      [] name = "drawdownInitialPotPercentage" -> "Initial Pot Drawdown Percentage"
      [] name = "customStatePensionAnnual" -> "Custom State Pension Annual Amount"

\* A faulty variant of CheckedFields: the parameters of all three drawdown types are checked.
CheckedFieldsAllDrawdown(fd) ==
    {"age", "salary", "currentPot", "contributionRate", "retirementAge",
     "ageToLowRiskFund", "inflationRate", "numFunds",
     "drawdownPercentage", "drawdownFixed", "drawdownInitialPotPercentage"}
    \cup (IF fd.includeStatePension = "Yes - Custom" THEN {"customStatePensionAnnual"}
          ELSE {})

\* The names of the fields list: the eight base fields, the drawdown field of the
\* selected type and the custom pension amount when it is selected.
CheckedFields(fd) ==
    {"age", "salary", "currentPot", "contributionRate", "retirementAge",
     "ageToLowRiskFund", "inflationRate", "numFunds"}
    \cup (IF fd.drawdownType = "percentage" THEN {"drawdownPercentage"}
          ELSE IF fd.drawdownType = "fixed" THEN {"drawdownFixed"}
          ELSE IF fd.drawdownType = "initialPot" THEN {"drawdownInitialPotPercentage"}
          ELSE {})
    \cup (IF fd.includeStatePension = "Yes - Custom" THEN {"customStatePensionAnnual"}
          ELSE {})

\* !field.value || isNaN(parseFloat(field.value))
NotANumber(value) == value = <<>> \/ IsNaN(ParseFloat(value))

\* The first loop: one "must be a valid number" message per field that fails.
NumberErrors(fd) ==
    [n \in {f \in CheckedFields(fd) : NotANumber(fd[f])} |->
        Label(n) \o " must be a valid number."]

\* The range and logic checks, on the parsed values.
RangeErrors(fd) ==
    LET parsedAge == ParseInt(fd.age)
        parsedRetirementAge == ParseInt(fd.retirementAge)
        parsedSalary == ParseFloat(fd.salary)
        parsedCurrentPot == ParseFloat(fd.currentPot)
        parsedContributionRate == ParseFloat(fd.contributionRate)
        parsedDrawdownPercentage == ParseFloat(fd.drawdownPercentage)
        parsedDrawdownFixed == ParseFloat(fd.drawdownFixed)
        parsedDrawdownInitialPotPercentage == ParseFloat(fd.drawdownInitialPotPercentage)
        parsedAgeToLowRiskFund == ParseInt(fd.ageToLowRiskFund)
        parsedInflationRate == ParseFloat(fd.inflationRate)
        parsedNumFunds == ParseInt(fd.numFunds)
        parsedCustomStatePensionAnnual == ParseFloat(fd.customStatePensionAnnual)
        msg ==
          [age |-> IF JsLe(parsedAge, 0) THEN "Current Age must be positive." ELSE "",
           retirementAge |->
             IF JsLe(parsedRetirementAge, parsedAge)
             THEN "Retirement Age must be greater than Current Age." ELSE "",
           salary |-> IF JsLe(parsedSalary, 0) THEN "Salary must be positive." ELSE "",
           currentPot |->
             IF JsLt(parsedCurrentPot, 0) THEN "Current Pot cannot be negative." ELSE "",
           contributionRate |->
             IF JsLe(parsedContributionRate, 0) \/ JsGt(parsedContributionRate, 100 * Scale)
             THEN "Contribution Rate must be between 0 and 100%." ELSE "",
           drawdownPercentage |->
             IF fd.drawdownType = "percentage"
                /\ (JsLe(parsedDrawdownPercentage, 0)
                    \/ JsGt(parsedDrawdownPercentage, 100 * Scale))
             THEN "Drawdown Percentage must be between 0 and 100%." ELSE "",
           drawdownFixed |->
             IF fd.drawdownType = "fixed" /\ JsLe(parsedDrawdownFixed, 0)
             THEN "Fixed Drawdown Amount must be positive." ELSE "",
           drawdownInitialPotPercentage |->
             IF fd.drawdownType = "initialPot"
                /\ (JsLe(parsedDrawdownInitialPotPercentage, 0)
                    \/ JsGt(parsedDrawdownInitialPotPercentage, 100 * Scale))
             THEN "Initial Pot Drawdown Percentage must be between 0 and 100%." ELSE "",
           ageToLowRiskFund |->
             IF JsLt(parsedAgeToLowRiskFund, parsedRetirementAge)
             THEN "Age to Low Risk Fund must be at least the Retirement Age." ELSE "",
           inflationRate |->
             IF JsLt(parsedInflationRate, 0) \/ JsGt(parsedInflationRate, 20 * Scale)
             THEN "Inflation Rate must be between 0% and 20%." ELSE "",
           numFunds |->
             IF JsLt(parsedNumFunds, 1) \/ JsGt(parsedNumFunds, 5)
             THEN "Number of Funds must be between 1 and 5." ELSE "",
           customStatePensionAnnual |->
             IF fd.includeStatePension = "Yes - Custom"
                /\ JsLe(parsedCustomStatePensionAnnual, 0)
             THEN "Custom State Pension Annual Amount must be positive." ELSE ""]
    IN  [n \in {f \in DOMAIN msg : msg[f] # ""} |-> msg[n]]

\* A faulty variant of validateInputs: the second "return false" is missing.
validateInputsNoSecondReturn(fd) ==
    LET first == NumberErrors(fd)
    IN  IF DOMAIN first # {} THEN [ok |-> FALSE, errors |-> first]
        ELSE [ok |-> TRUE, errors |-> RangeErrors(fd)]

\* A faulty variant of validateInputs: a form that was accepted is not accepted
\* a second time.
validateInputsOnce(fd) ==
    LET first == NumberErrors(fd)
    IN  IF valid = "true" THEN [ok |-> FALSE, errors |-> [age |-> "Already validated."]]
        ELSE IF DOMAIN first # {} THEN [ok |-> FALSE, errors |-> first]
        ELSE IF DOMAIN RangeErrors(fd) # {} THEN [ok |-> FALSE, errors |-> RangeErrors(fd)]
        ELSE [ok |-> TRUE, errors |-> EmptyErrors]

\* validateInputs(): the value returned and the map given to setErrors.
validateInputs(fd) ==
    LET first == NumberErrors(fd)
    IN  IF DOMAIN first # {} THEN [ok |-> FALSE, errors |-> first]
        ELSE LET second == RangeErrors(fd)
             IN  IF DOMAIN second # {} THEN [ok |-> FALSE, errors |-> second]
                 ELSE [ok |-> TRUE, errors |-> EmptyErrors]

(***************************************************************************)
(* simulateAccumulation                                                    *)
(***************************************************************************)
simulations == 1000

\* Math.random() is modelled with resolution 1/RandDen: the call for year y of run
\* i returns Random(seed, i, y) / RandDen, for a seed chosen once per simulation.
RandDen == 4
Seeds == {1, 2}
Random(seed, i, y) ==
    CASE seed = 1 -> (i + y) % RandDen
      [] OTHER -> IF (i + y) % 3 = 0 THEN 0 ELSE RandDen - 1

\* formData.retirementAge - formData.age: both strings are coerced to numbers.
Years(fd) ==
    LET r == ToNumber(fd.retirementAge)
        a == ToNumber(fd.age)
    IN  IF IsNaN(r) \/ IsNaN(a) THEN NaN ELSE r - a

\* Number of iterations of "for (year = 0; year < years; year++)".
YearIterations(years) ==
    IF IsNaN(years) \/ years <= 0 THEN 0 ELSE (years + Scale - 1) \div Scale

\* Array.from({ length: years }): the length is truncated, NaN and negatives are 0.
ArrayLength(years) ==
    IF IsNaN(years) \/ years <= 0 THEN 0 ELSE years \div Scale

\* x * (1 + num / den), on fixed point.
Grow(x, num, den) == x + ((x * num) \div den)

\* A faulty variant of YearlyBalances: the salary is raised before the
\* contribution of the year is taken.
RECURSIVE YearlyBalancesSalaryFirst(_, _, _, _, _, _, _, _, _)
YearlyBalancesSalaryFirst(seed, i, y, n, pot, salary, rate, infl, fund) ==
    IF y >= n THEN <<>>
    ELSE LET newSalary == Grow(salary, infl, 100 * Scale)
             contribution == MulDiv(newSalary, rate, 100 * Scale)
             annualReturn == fund.return * RandDen
                             + fund.volatility * (2 * Random(seed, i, y) - RandDen)
             newPot == Grow(pot + contribution, annualReturn, RateDen * RandDen)
         IN  <<newPot>> \o YearlyBalancesSalaryFirst(seed, i, y + 1, n, newPot, newSalary,
                                                     rate, infl, fund)

\* The yearlyBalances of run i from year y on (n iterations in all): year y takes
\* the contribution from the current salary, applies the drawn return to the pot,
\* records it, then raises the salary.  rate, infl: contribution and inflation rate
\* in percent; fund: the entry of fundData.
RECURSIVE YearlyBalances(_, _, _, _, _, _, _, _, _)
YearlyBalances(seed, i, y, n, pot, salary, rate, infl, fund) ==
    IF y >= n THEN <<>>
    ELSE LET contribution == MulDiv(salary, rate, 100 * Scale)
             \* meanReturn + volatility * (Math.random() * 2 - 1), in 1/(RateDen*RandDen)
             annualReturn == fund.return * RandDen
                             + fund.volatility * (2 * Random(seed, i, y) - RandDen)
             newPot == Grow(pot + contribution, annualReturn, RateDen * RandDen)
             newSalary == Grow(salary, infl, 100 * Scale)
         IN  <<newPot>> \o YearlyBalances(seed, i, y + 1, n, newPot, newSalary, rate, infl, fund)

\* A faulty variant of getPercentile: the element just below the index is returned.
getPercentileBelow(data, percentile) ==
    LET index == (percentile * Len(data)) \div 100
    IN  data[Max(index, 1)]

\* getPercentile(data, percentile): percentile is given in percent.
getPercentile(data, percentile) ==
    LET index == (percentile * Len(data)) \div 100
    IN  data[index + 1]

\* A faulty variant of SortedYear: the years are taken from the last one back.
SortedYearBackwards(res, i) ==
    SortSeq([r \in 1..Len(res) |-> res[r][Len(res[r]) - i]], LAMBDA a, b : a < b)

\* results.map((run) => run[i]).sort((a, b) => a - b) for year i (0-based)
SortedYear(res, i) ==
    SortSeq([r \in 1..Len(res) |-> res[r][i + 1]], LAMBDA a, b : a < b)

\* simulateAccumulation(): the runs and the three percentile sequences.
simulateAccumulation(fd, seed) ==
    LET years == Years(fd)
        n == YearIterations(years)
        pot == ParseFloat(fd.currentPot)
        salary == ParseFloat(fd.salary)
        rate == ParseFloat(fd.contributionRate)
        infl == ParseFloat(fd.inflationRate)
        fund == fundData(fd.fundSelection)
        res == [i \in 1..simulations |->
                   YearlyBalances(seed, i - 1, 0, n, pot, salary, rate, infl, fund)]
        percentiles == [y \in 1..ArrayLength(years) |-> SortedYear(res, y - 1)]
    IN  [results |-> res,
         p25 |-> [y \in 1..Len(percentiles) |-> getPercentile(percentiles[y], 25)],
         p50 |-> [y \in 1..Len(percentiles) |-> getPercentile(percentiles[y], 50)],
         p75 |-> [y \in 1..Len(percentiles) |-> getPercentile(percentiles[y], 75)]]

\* p50[p50.length - 1]: undefined on an empty sequence.
Last(s) == IF s = <<>> THEN Undefined ELSE s[Len(s)]

(***************************************************************************)
(* simulateDecumulation: the values computed once from the form            *)
(***************************************************************************)
\* A faulty variant of numFunds: one fund too many.
numFundsPlusOne == ParseInt(formData.numFunds) + 1

numFunds == ParseInt(formData.numFunds)

\* fundData[fund].return / 12 is kept as the annual return over RateDen * 12.
returns == [i \in 1..Len(formData.funds) |-> fundData(formData.funds[i]).return]

\* parseFloat(formData.inflationRate) / 100 is kept in percent, over 100 * Scale.
inflationRate == ParseFloat(formData.inflationRate)
switchAge == ParseInt(formData.ageToLowRiskFund)
retirementAge == ParseInt(formData.retirementAge)
includeStatePension == formData.includeStatePension
\* A faulty variant of maxMonths: the horizon is five years longer.
maxMonthsTo105 == IF IsNaN(retirementAge) THEN NaN ELSE (105 - retirementAge) * 12

maxMonths == IF IsNaN(retirementAge) THEN NaN ELSE (100 - retirementAge) * 12

baseDrawdownFixed(start) ==
    IF formData.drawdownType = "fixed" THEN ParseFloat(formData.drawdownFixed)
    ELSE IF formData.drawdownType = "initialPot"
         THEN MulDiv(start, ParseFloat(formData.drawdownInitialPotPercentage), 100 * Scale) \div 12
         ELSE 0

\* A faulty variant of InitialStatePensionAnnual: a custom amount is ignored.
InitialStatePensionAlwaysStandard ==
    IF includeStatePension = "No" THEN 0 ELSE STANDARD_STATE_PENSION_ANNUAL * Scale

InitialStatePensionAnnual ==
    IF includeStatePension = "Yes - Standard" THEN STANDARD_STATE_PENSION_ANNUAL * Scale
    ELSE IF includeStatePension = "Yes - Custom"
         THEN ParseFloat(formData.customStatePensionAnnual)
         ELSE 0

\* pots.reduce((sum, pot) => sum + pot, 0)
Total(ps) == SumSeq(ps)

\* The values of the locals while no simulation runs.
NoAccumulation == results = <<>> /\ p25 = <<>> /\ p50 = <<>> /\ p75 = <<>>
NoDecumulation ==
    /\ startingPot = 0 /\ pots = <<>> /\ movedFunds = <<>>
    /\ fundBalances = <<>> /\ months = 0 /\ age = 0 /\ withdrawal = 0
    /\ withdrawals = <<>> /\ annualWithdrawals = <<>>
    /\ currentYearWithdrawals = 0 /\ currentDrawdownFixed = 0
    /\ currentStatePensionAnnual = 0 /\ currentStatePensionMonthly = 0
    /\ statePensionMonthlyValues = <<>> /\ statePensionAnnualValues = <<>>
    /\ decumulationResults = Null
NoRun == NoAccumulation /\ NoDecumulation

\* The locals are given their NoRun values.
ForgetRun ==
    /\ results' = <<>> /\ p25' = <<>> /\ p50' = <<>> /\ p75' = <<>>
    /\ startingPot' = 0 /\ pots' = <<>> /\ movedFunds' = <<>>
    /\ fundBalances' = <<>> /\ months' = 0 /\ age' = 0 /\ withdrawal' = 0
    /\ withdrawals' = <<>> /\ annualWithdrawals' = <<>>
    /\ currentYearWithdrawals' = 0 /\ currentDrawdownFixed' = 0
    /\ currentStatePensionAnnual' = 0 /\ currentStatePensionMonthly' = 0
    /\ statePensionMonthlyValues' = <<>> /\ statePensionAnnualValues' = <<>>
    /\ decumulationResults' = Null

\* The result returned for a starting pot that is undefined, NaN, zero or negative.
DegenerateResult ==
    [funds |-> << [i \in 1..12 |-> 0] >>, withdrawals |-> <<0>>,
     annualWithdrawals |-> <<0>>, statePensionMonthlyValues |-> <<0>>,
     statePensionAnnualValues |-> <<0>>]

\* A faulty variant of Degenerate: only a missing or non-numeric pot is caught.
DegenerateNoSign(start) == start = Undefined \/ IsNaN(start)

\* !startingPot || isNaN(startingPot) || startingPot <= 0
Degenerate(start) == start = Undefined \/ IsNaN(start) \/ start <= 0

(***************************************************************************)
(* simulateDecumulation: the steps of the call                             *)
(***************************************************************************)
\* simulateDecumulation(start) up to the while loop (lines 192-222).
EnterDecumulation(start) ==
    /\ startingPot' = start
    /\ results' = <<>>
    /\ IF Degenerate(start)
       THEN /\ decumulationResults' = DegenerateResult
            /\ pc' = "publish"
            /\ UNCHANGED <<potVars, months, age, withdrawal, seriesVars, runningVars>>
       ELSE /\ pots' = [i \in 1..numFunds |-> start \div numFunds]
            /\ fundBalances' = [i \in 1..numFunds |-> <<>>]
            /\ age' = retirementAge
            /\ months' = 0
            /\ withdrawals' = <<>>
            /\ annualWithdrawals' = <<>>
            /\ currentYearWithdrawals' = 0
            /\ movedFunds' = [i \in 1..(numFunds - 1) |-> FALSE]
            /\ currentDrawdownFixed' = baseDrawdownFixed(start)
            /\ currentStatePensionAnnual' = InitialStatePensionAnnual
            /\ currentStatePensionMonthly' = InitialStatePensionAnnual \div 12
            /\ statePensionMonthlyValues' = <<>>
            /\ statePensionAnnualValues' = <<>>
            /\ pc' = "while"
            /\ UNCHANGED <<withdrawal, decumulationResults>>
    /\ UNCHANGED <<formVars, outVars, valid, p25, p50, p75>>

\* Line 319: simulateDecumulation(p50[p50.length - 1]).
StartDecumulation ==
    /\ pc = "decumulate"
    /\ EnterDecumulation(Last(p50))

\* A faulty variant of WhileTest: the loop goes on while money is left, whatever the month.
WhileTestNoLimit ==
    /\ pc = "while"
    /\ IF Total(pots) > 0
       THEN pc' = "withdraw" /\ UNCHANGED decumulationResults
       ELSE /\ pc' = "publish"
            /\ decumulationResults' =
                 [funds |-> fundBalances, withdrawals |-> withdrawals,
                  annualWithdrawals |-> annualWithdrawals,
                  statePensionMonthlyValues |-> statePensionMonthlyValues,
                  statePensionAnnualValues |-> statePensionAnnualValues]
    /\ UNCHANGED <<formVars, outVars, valid, accVars, startingPot, potVars, months, age,
                   withdrawal, seriesVars, runningVars>>

\* while (total > 0 && months < maxMonths), line 224; after the loop, line 292.
WhileTest ==
    /\ pc = "while"
    /\ IF Total(pots) > 0 /\ JsLt(months, maxMonths)
       THEN pc' = "withdraw" /\ UNCHANGED decumulationResults
       ELSE /\ pc' = "publish"
            /\ decumulationResults' =
                 [funds |-> fundBalances, withdrawals |-> withdrawals,
                  annualWithdrawals |-> annualWithdrawals,
                  statePensionMonthlyValues |-> statePensionMonthlyValues,
                  statePensionAnnualValues |-> statePensionAnnualValues]
    /\ UNCHANGED <<formVars, outVars, valid, accVars, startingPot, potVars, months, age,
                   withdrawal, seriesVars, runningVars>>

\* A faulty variant of PolicyWithdrawal: the initial-pot policy draws its share
\* from the current pot.
PolicyWithdrawalOfCurrentPot ==
    IF formData.drawdownType = "percentage"
    THEN MulDiv(Total(pots), ParseFloat(formData.drawdownPercentage), 100 * 12 * Scale)
    ELSE IF formData.drawdownType = "initialPot"
         THEN MulDiv(Total(pots), ParseFloat(formData.drawdownInitialPotPercentage),
                     100 * Scale) \div 12
         ELSE currentDrawdownFixed

\* The withdrawal of the month before it is capped (lines 225-227).
PolicyWithdrawal ==
    IF formData.drawdownType = "percentage"
    THEN MulDiv(Total(pots), ParseFloat(formData.drawdownPercentage), 100 * 12 * Scale)
    ELSE currentDrawdownFixed

\* A faulty variant of Withdraw: the withdrawal is not capped at pots[0].
WithdrawUncapped ==
    /\ pc = "withdraw"
    /\ LET w == PolicyWithdrawal
       IN  /\ withdrawal' = w
           /\ pots' = [pots EXCEPT ![1] = pots[1] - w]
           /\ currentYearWithdrawals' = currentYearWithdrawals + w
    /\ pc' = "returns"
    /\ UNCHANGED <<formVars, outVars, valid, accVars, startingPot, movedFunds, months, age,
                   seriesVars, currentDrawdownFixed, currentStatePensionAnnual,
                   currentStatePensionMonthly, decumulationResults>>

\* A faulty variant of Withdraw: the withdrawal is capped at the total of the funds.
WithdrawCappedAtTotal ==
    /\ pc = "withdraw"
    /\ LET w == Min(PolicyWithdrawal, Total(pots))
       IN  /\ withdrawal' = w
           /\ pots' = [pots EXCEPT ![1] = pots[1] - w]
           /\ currentYearWithdrawals' = currentYearWithdrawals + w
    /\ pc' = "returns"
    /\ UNCHANGED <<formVars, outVars, valid, accVars, startingPot, movedFunds, months, age,
                   seriesVars, currentDrawdownFixed, currentStatePensionAnnual,
                   currentStatePensionMonthly, decumulationResults>>

\* Lines 225-230: the withdrawal, capped at pots[0], is taken from pots[0].
Withdraw ==
    /\ pc = "withdraw"
    /\ LET w == Min(PolicyWithdrawal, pots[1])
       IN  /\ withdrawal' = w
           /\ pots' = [pots EXCEPT ![1] = pots[1] - w]
           /\ currentYearWithdrawals' = currentYearWithdrawals + w
    /\ pc' = "returns"
    /\ UNCHANGED <<formVars, outVars, valid, accVars, startingPot, movedFunds, months, age,
                   seriesVars, currentDrawdownFixed, currentStatePensionAnnual,
                   currentStatePensionMonthly, decumulationResults>>

\* Lines 232-234: pots[i] = Math.max(0, pots[i] * (1 + returns[i])).
ApplyReturns ==
    /\ pc = "returns"
    /\ pots' = [i \in 1..numFunds |-> Max(0, Grow(pots[i], returns[i], RateDen * 12))]
    /\ pc' = "rebalance"
    /\ UNCHANGED <<formVars, outVars, valid, accVars, startingPot, movedFunds, months, age,
                   withdrawal, seriesVars, runningVars, decumulationResults>>

\* A faulty variant of Rebalanced: the total is spread over all funds.
RebalancedOverAll(ps) ==
    LET activeFunds == Cardinality({i \in 1..Len(ps) : ps[i] > 0})
    IN  IF activeFunds > 1
        THEN [i \in 1..Len(ps) |-> Total(ps) \div Len(ps)]
        ELSE ps

\* Lines 236-245: at the end of a year the total is spread over the active funds.
Rebalanced(ps) ==
    LET activeFunds == Cardinality({i \in 1..Len(ps) : ps[i] > 0})
    IN  IF activeFunds > 1
        THEN [i \in 1..Len(ps) |-> IF ps[i] > 0 THEN Total(ps) \div activeFunds ELSE 0]
        ELSE ps

\* A faulty variant of Rebalance: the funds are rebalanced every month.
RebalanceEveryMonth ==
    /\ pc = "rebalance"
    /\ pots' = Rebalanced(pots)
    /\ pc' = "consolidate"
    /\ UNCHANGED <<formVars, outVars, valid, accVars, startingPot, movedFunds, months, age,
                   withdrawal, seriesVars, runningVars, decumulationResults>>

Rebalance ==
    /\ pc = "rebalance"
    /\ pots' = IF months % 12 = 11 THEN Rebalanced(pots) ELSE pots
    /\ pc' = "consolidate"
    /\ UNCHANGED <<formVars, outVars, valid, accVars, startingPot, movedFunds, months, age,
                   withdrawal, seriesVars, runningVars, decumulationResults>>

\* A faulty variant of Mergeable: the buffer test on pots[0] is missing.
MergeableNoBuffer == {i \in 0..(numFunds - 2) : ~movedFunds[i + 1] /\ pots[i + 2] > 0}

\* Lines 247-254: the funds i (0-based, over movedFunds) the scan would merge.
Mergeable == {i \in 0..(numFunds - 2) :
                 pots[1] < withdrawal * 12 /\ ~movedFunds[i + 1] /\ pots[i + 2] > 0}

\* A faulty variant of Consolidate: no fund is ever merged into fund 0.
ConsolidateNever ==
    /\ pc = "consolidate"
    /\ pc' = "sweep"
    /\ UNCHANGED <<formVars, outVars, valid, accVars, startingPot, potVars, months, age,
                   withdrawal, seriesVars, runningVars, decumulationResults>>

Consolidate ==
    /\ pc = "consolidate"
    /\ IF Mergeable # {}
       THEN LET i == CHOOSE j \in Mergeable : \A k \in Mergeable : j <= k
            IN  /\ pots' = [pots EXCEPT ![1] = pots[1] + pots[i + 2], ![i + 2] = 0]
                /\ movedFunds' = [movedFunds EXCEPT ![i + 1] = TRUE]
       ELSE UNCHANGED potVars
    /\ pc' = "sweep"
    /\ UNCHANGED <<formVars, outVars, valid, accVars, startingPot, months, age,
                   withdrawal, seriesVars, runningVars, decumulationResults>>

\* A faulty variant of Sweep: the other funds are emptied and fund 0 gets nothing.
SweepDropsFunds ==
    /\ pc = "sweep"
    /\ IF JsGe(age, switchAge) /\ \E i \in 2..numFunds : pots[i] > 0
       THEN /\ pots' = [i \in 1..numFunds |-> IF i = 1 THEN pots[1] ELSE 0]
            /\ movedFunds' = [i \in 1..Len(movedFunds) |-> TRUE]
       ELSE UNCHANGED potVars
    /\ pc' = "yearEnd"
    /\ UNCHANGED <<formVars, outVars, valid, accVars, startingPot, months, age,
                   withdrawal, seriesVars, runningVars, decumulationResults>>

\* Lines 256-261: from the switch age on, everything is moved into pots[0].
Sweep ==
    /\ pc = "sweep"
    /\ IF JsGe(age, switchAge) /\ \E i \in 2..numFunds : pots[i] > 0
       THEN /\ pots' = [i \in 1..numFunds |->
                          IF i = 1 THEN pots[1] + Total(Tail(pots)) ELSE 0]
            /\ movedFunds' = [i \in 1..Len(movedFunds) |-> TRUE]
       ELSE UNCHANGED potVars
    /\ pc' = "yearEnd"
    /\ UNCHANGED <<formVars, outVars, valid, accVars, startingPot, months, age,
                   withdrawal, seriesVars, runningVars, decumulationResults>>

\* Lines 263-275: the annual series, and inflation of the fixed drawdown and of the
\* state pension.
YearEnd ==
    /\ pc = "yearEnd"
    /\ IF months % 12 = 11
       THEN /\ annualWithdrawals' = Append(annualWithdrawals, currentYearWithdrawals)
            /\ statePensionAnnualValues' =
                 Append(statePensionAnnualValues, currentStatePensionAnnual)
            /\ currentYearWithdrawals' = 0
            /\ currentDrawdownFixed' =
                 IF formData.drawdownType \in {"fixed", "initialPot"}
                 THEN Grow(currentDrawdownFixed, inflationRate, 100 * Scale)
                 ELSE currentDrawdownFixed
            /\ IF includeStatePension # "No"
               THEN /\ currentStatePensionMonthly' =
                         Grow(currentStatePensionMonthly, inflationRate, 100 * Scale)
                    /\ currentStatePensionAnnual' =
                         Grow(currentStatePensionAnnual, inflationRate, 100 * Scale)
               ELSE UNCHANGED <<currentStatePensionMonthly, currentStatePensionAnnual>>
       ELSE UNCHANGED <<annualWithdrawals, statePensionAnnualValues, runningVars>>
    /\ pc' = "record"
    /\ UNCHANGED <<formVars, outVars, valid, accVars, startingPot, potVars, months, age,
                   withdrawal, fundBalances, withdrawals, statePensionMonthlyValues,
                   decumulationResults>>

\* Lines 277-281: the month is recorded.
Record ==
    /\ pc = "record"
    /\ fundBalances' = [i \in 1..numFunds |-> Append(fundBalances[i], pots[i])]
    /\ withdrawals' = Append(withdrawals, withdrawal)
    /\ statePensionMonthlyValues' =
         Append(statePensionMonthlyValues, currentStatePensionMonthly)
    /\ pc' = "check"
    /\ UNCHANGED <<formVars, outVars, valid, accVars, startingPot, potVars, months, age,
                   withdrawal, annualWithdrawals, statePensionAnnualValues, runningVars,
                   decumulationResults>>

\* Lines 283-289: stop when the total is below 1, else go on to the next month.
Depleted ==
    /\ pc = "check"
    /\ Total(pots) < Scale
    /\ annualWithdrawals' =
         IF currentYearWithdrawals > 0
         THEN Append(annualWithdrawals, currentYearWithdrawals) ELSE annualWithdrawals
    /\ decumulationResults' =
         [funds |-> fundBalances, withdrawals |-> withdrawals,
          annualWithdrawals |-> annualWithdrawals',
          statePensionMonthlyValues |-> statePensionMonthlyValues,
          statePensionAnnualValues |-> statePensionAnnualValues]
    /\ pc' = "publish"
    /\ UNCHANGED <<formVars, outVars, valid, accVars, startingPot, potVars, months, age,
                   withdrawal, fundBalances, withdrawals, statePensionMonthlyValues,
                   statePensionAnnualValues, runningVars>>

NextMonth ==
    /\ pc = "check"
    /\ ~(Total(pots) < Scale)
    /\ months' = months + 1
    /\ age' = retirementAge + ((months + 1) \div 12)
    /\ pc' = "while"
    /\ UNCHANGED <<formVars, outVars, valid, accVars, startingPot, potVars, withdrawal,
                   seriesVars, runningVars, decumulationResults>>

(***************************************************************************)
(* Actions shared by the specifications                                    *)
(***************************************************************************)
\* Bound on the number of change events of a behaviour.
MaxChanges == 1

\* handleChange(e) with e.target = {name, value}.
HandleChange(name, value) ==
    /\ pc = "idle"
    /\ changes < MaxChanges
    /\ formData' = ChangedFormData(formData, name, value)
    /\ errors' = ClearError(errors, name)
    /\ changes' = changes + 1
    /\ UNCHANGED <<outVars, pc, valid, accVars, decVars>>

\* A direct call of validateInputs(): setErrors and the returned value.
ValidateInputs ==
    /\ pc = "idle"
    /\ LET v == validateInputs(formData)
       IN  /\ errors' = v.errors
           /\ valid' = IF v.ok THEN "true" ELSE "false"
    /\ UNCHANGED <<formData, changes, outVars, pc, accVars, decVars>>

\* A faulty variant of HandleCalculate: the result of validateInputs is ignored.
HandleCalculateUnguarded ==
    /\ pc = "idle"
    /\ LET v == validateInputs(formData)
       IN  /\ errors' = v.errors
           /\ valid' = IF v.ok THEN "true" ELSE "false"
    /\ pc' = "accumulate"
    /\ UNCHANGED <<formData, changes, outVars, accVars, decVars>>

\* handleCalculate(), lines 296-297: "if (!validateInputs()) return;".
HandleCalculate ==
    /\ pc = "idle"
    /\ LET v == validateInputs(formData)
       IN  /\ errors' = v.errors
           /\ valid' = IF v.ok THEN "true" ELSE "false"
           /\ pc' = IF v.ok THEN "accumulate" ELSE "idle"
    /\ UNCHANGED <<formData, changes, outVars, accVars, decVars>>

\* Line 299: const { p25, p50, p75 } = simulateAccumulation().
SimulateAccumulation ==
    /\ pc = "accumulate"
    /\ \E seed \in Seeds :
          LET r == simulateAccumulation(formData, seed)
          IN  /\ results' = r.results
              /\ p25' = r.p25
              /\ p50' = r.p50
              /\ p75' = r.p75
    /\ pc' = "decumulate"
    /\ UNCHANGED <<formVars, outVars, valid, decVars>>

\* data: decumulationResults.funds[i], which is undefined past the end of funds.
FundDataset(funds, i) ==
    [defined |-> i <= Len(funds), data |-> IF i <= Len(funds) THEN funds[i] ELSE <<>>]

\* parseInt(base) + offset
LabelFrom(base, offset) == IF IsNaN(base) THEN NaN ELSE base + offset

\* Lines 300-422: the five setters (React applies them together when the handler
\* returns), after which the locals of the call are gone.
Publish ==
    /\ pc = "publish"
    /\ accumulationChartData' =
         [labels |-> [i \in 1..Len(p50) |-> LabelFrom(ParseInt(formData.age), i - 1)],
          p25 |-> p25, p50 |-> p50, p75 |-> p75]
    /\ accumulationTableData' = [p25 |-> Last(p25), p50 |-> Last(p50), p75 |-> Last(p75)]
    /\ decumulationChartData' =
         [labels |-> [i \in 1..Len(decumulationResults.funds[1]) |->
                         LabelFrom(retirementAge, (i - 1) \div 12)],
          datasets |-> [i \in 1..numFunds |-> FundDataset(decumulationResults.funds, i)]]
    /\ monthlyIncomeChartData' =
         [labels |-> [i \in 1..Len(decumulationResults.withdrawals) |->
                         LabelFrom(retirementAge, (i - 1) \div 12)],
          statePension |-> decumulationResults.statePensionMonthlyValues,
          drawdown |-> decumulationResults.withdrawals]
    /\ annualIncomeChartData' =
         [labels |-> [i \in 1..Len(decumulationResults.annualWithdrawals) |->
                         LabelFrom(retirementAge, i - 1)],
          statePension |-> decumulationResults.statePensionAnnualValues,
          drawdown |-> decumulationResults.annualWithdrawals]
    /\ ForgetRun
    /\ pc' = "idle"
    /\ UNCHANGED <<formVars, valid>>

(***************************************************************************)
(* Form states and change events the user interface can produce.  Text     *)
(* inputs are type="number": their value is "" or a floating-point literal *)
(* (a leading dot, a fraction and an exponent included); selects yield one *)
(* of their options.                                                       *)
(***************************************************************************)
DrawdownTypes == {"percentage", "fixed", "initialPot"}
PensionChoices == {"No", "Yes - Standard", "Yes - Custom"}

\* A filled-in form for a drawdown type and a state pension choice: only the
\* parameter of the selected drawdown type is filled.
FilledForm(dt, sp) ==
    [InitialFormData EXCEPT
        !.age = <<"3", "0">>,
        !.salary = <<"1", "0", "0", "0">>,
        !.currentPot = <<"5", "0", "0">>,
        !.contributionRate = <<"1", "0">>,
        !.retirementAge = <<"6", "5">>,
        !.ageToLowRiskFund = <<"7", "5">>,
        !.inflationRate = <<"2">>,
        !.drawdownType = dt,
        !.drawdownPercentage = IF dt = "percentage" THEN <<"4">> ELSE <<>>,
        !.drawdownFixed = IF dt = "fixed" THEN <<"5", "0">> ELSE <<>>,
        !.drawdownInitialPotPercentage = IF dt = "initialPot" THEN <<"5">> ELSE <<>>,
        !.includeStatePension = sp,
        !.customStatePensionAnnual = IF sp = "Yes - Custom" THEN <<"9", "0", "0", "0">> ELSE <<>>]

\* The untouched form, the filled-in forms, and filled-in forms with one value out
\* of range.
ValidateForms ==
    {InitialFormData}
    \cup {FilledForm(dt, sp) : dt \in DrawdownTypes, sp \in PensionChoices}
    \cup {[FilledForm(dt, "Yes - Standard") EXCEPT !.age = <<"0">>] : dt \in DrawdownTypes}
    \cup {[FilledForm("fixed", sp) EXCEPT !.inflationRate = <<"2", "5">>] : sp \in PensionChoices}

AgeTexts == {<<>>, <<"0">>, <<".", "5">>, <<"3", "0", ".", "5">>, <<"7", "0">>, <<"8", "0">>}
AmountTexts == {<<>>, <<"0">>, <<"-", "5">>, <<"2", "5", ".", "5">>}
PercentTexts == {<<>>, <<"0">>, <<"-", "5">>, <<"1", "5">>, <<"1", "0", "0">>, <<"1", "0", "0", ".", "5">>}

ValidateEvents ==
    ({"age", "retirementAge", "ageToLowRiskFund"} \X AgeTexts)
    \cup ({"salary", "currentPot", "drawdownFixed", "customStatePensionAnnual"} \X AmountTexts)
    \cup ({"contributionRate", "inflationRate", "drawdownPercentage",
           "drawdownInitialPotPercentage"} \X PercentTexts)
    \cup ({"drawdownType"} \X DrawdownTypes)
    \cup ({"includeStatePension"} \X PensionChoices)
    \cup ({"numFunds"} \X {<<"1">>, <<"5">>})
    \cup {<<"fundSelection", "Future Advantage 2">>, <<"fund0", "Future Advantage 4">>}

(***************************************************************************)
(* SpecValidate: the form is edited and validateInputs is called           *)
(***************************************************************************)
InitValidate ==
    /\ formData \in ValidateForms
    /\ errors = EmptyErrors
    /\ accumulationChartData = Null
    /\ accumulationTableData = Null
    /\ decumulationChartData = Null
    /\ monthlyIncomeChartData = Null
    /\ annualIncomeChartData = Null
    /\ pc = "idle"
    /\ valid = "none"
    /\ changes = 0
    /\ NoRun

EditForValidate == \E e \in ValidateEvents : HandleChange(e[1], e[2])

NextValidate == EditForValidate \/ ValidateInputs

SpecValidate == InitValidate /\ [][NextValidate]_vars

(***************************************************************************)
(* Spec: the form is edited and "Run Simulation" is pressed                *)
(***************************************************************************)
\* A filled-in form for a late retirement: age, retirement age, switch age, number
\* of funds, drawdown type and its parameter, inflation, state pension.
RunForm(a, r, sw, nf, dt, param, infl, sp) ==
    [FilledForm(dt, sp) EXCEPT
        !.age = a, !.retirementAge = r, !.ageToLowRiskFund = sw,
        !.numFunds = nf,
        !.funds = ResizeFunds(InitialFormData.funds, ParseInt(nf)),
        !.inflationRate = infl,
        !.drawdownPercentage = IF dt = "percentage" THEN param ELSE <<>>,
        !.drawdownFixed = IF dt = "fixed" THEN param ELSE <<>>,
        !.drawdownInitialPotPercentage = IF dt = "initialPot" THEN param ELSE <<>>]

RunForms ==
    {RunForm(<<"9", "7">>, <<"9", "8">>, sw, nf, "percentage", <<"4">>, <<"2">>, "Yes - Standard") :
        sw \in {<<"9", "9">>, <<"1", "0", "5">>}, nf \in {<<"1">>, <<"3">>}}
    \cup {RunForm(<<"9", "7">>, <<"9", "9">>, <<"1", "0", "5">>, <<"2">>, "fixed", p, <<"2", "0">>, "Yes - Custom") :
            p \in {<<"2", "0">>, <<"4", "0", "0">>}}
    \cup {RunForm(<<"9", "7">>, <<"9", "8">>, <<"9", "9">>, <<"3">>, "initialPot", <<"9", "0">>, <<"0">>, "No"),
          RunForm(<<"9", "7">>, <<"9", "8", ".", "5">>, <<"9", "9">>, <<"2">>, "percentage", <<"1", "0", "0">>, <<"2">>, "No"),
          RunForm(<<"9", "8", ".", "5">>, <<"9", "9">>, <<"9", "9">>, <<"2">>, "fixed", <<"5", "0">>, <<"2">>, "No"),
          RunForm(<<"9", "9">>, <<"1", "0", "0">>, <<"1", "0", "0">>, <<"2">>, "fixed", <<"5", "0">>, <<"2">>, "Yes - Standard"),
          RunForm(<<"9", "9">>, <<"1", "0", "1">>, <<"1", "0", "1">>, <<"3">>, "percentage", <<"4">>, <<"2">>, "No"),
          RunForm(<<"9", "8">>, <<"9", "9">>, <<".", "5">>, <<"3">>, "initialPot", <<"1", "0">>, <<"2">>, "No"),
          [RunForm(<<"9", "7">>, <<"9", "9">>, <<"9", "9">>, <<"2">>, "percentage", <<"4">>, <<"2">>, "No")
             EXCEPT !.currentPot = <<"3", "0", "0", "0">>, !.salary = <<"1", "0">>,
                    !.contributionRate = <<"1">>]}

RunEvents ==
    {<<"retirementAge", <<>> >>, <<"numFunds", <<"2">> >>,
     <<"fundSelection", "Future Advantage 1">>}

Init ==
    /\ formData \in RunForms
    /\ errors = EmptyErrors
    /\ accumulationChartData = Null
    /\ accumulationTableData = Null
    /\ decumulationChartData = Null
    /\ monthlyIncomeChartData = Null
    /\ annualIncomeChartData = Null
    /\ pc = "idle"
    /\ valid = "none"
    /\ changes = 0
    /\ NoRun

\* The steps of the while loop of simulateDecumulation.
LoopStep ==
    \/ WhileTest
    \/ Withdraw
    \/ ApplyReturns
    \/ Rebalance
    \/ Consolidate
    \/ Sweep
    \/ YearEnd
    \/ Record
    \/ Depleted
    \/ NextMonth

Edit == \E e \in RunEvents : HandleChange(e[1], e[2])

Next ==
    \/ Edit
    \/ HandleCalculate
    \/ SimulateAccumulation
    \/ StartDecumulation
    \/ LoopStep
    \/ Publish

Spec == Init /\ [][Next]_vars

\* "Run Simulation" is pressed and the call runs; the form is not edited.
NextRun ==
    \/ HandleCalculate
    \/ SimulateAccumulation
    \/ StartDecumulation
    \/ LoopStep
    \/ Publish

\* The handler runs to completion on the single JavaScript thread: a loop step
\* that can be taken is taken.
FairSpec == Init /\ [][NextRun]_vars /\ WF_vars(LoopStep)

(***************************************************************************)
(* SpecLong: "Run Simulation" on forms with a retirement at 64 or 65       *)
(***************************************************************************)
LongForms ==
    {RunForm(<<"6", "3">>, <<"6", "4">>, <<"7", "0">>, <<"2">>, "percentage", <<"4">>, <<"2">>, "No"),
     RunForm(<<"6", "4">>, <<"6", "5">>, <<"7", "0">>, <<"2">>, "percentage", <<"4">>, <<"2">>, "Yes - Standard"),
     RunForm(<<"6", "4">>, <<"6", "5">>, <<"6", "5">>, <<"1">>, "fixed", <<"1", "0", "0">>, <<"2">>, "No")}

InitLong ==
    /\ formData \in LongForms
    /\ errors = EmptyErrors
    /\ accumulationChartData = Null
    /\ accumulationTableData = Null
    /\ decumulationChartData = Null
    /\ monthlyIncomeChartData = Null
    /\ annualIncomeChartData = Null
    /\ pc = "idle"
    /\ valid = "none"
    /\ changes = 0
    /\ NoRun

SpecLong == InitLong /\ [][NextRun]_vars

(***************************************************************************)
(* SpecDecumulate: simulateDecumulation is called with a given starting    *)
(* pot, on the form as it stands                                           *)
(***************************************************************************)
\* The starting pots of the calls: absent, not a number, zero, negative, the least
\* positive number (5e-324 in the code, one unit of the fixed point here) and an
\* ordinary positive amount.
StartingPots == {Undefined, NaN, 0, 0 - 50 * Scale, 1, 600 * Scale}

\* simulateDecumulation(start), called for itself.
CallDecumulation ==
    /\ pc = "idle"
    /\ \E start \in StartingPots : EnterDecumulation(start)

\* Line 292 (or 194): the call returns decumulationResults to its caller.
Return ==
    /\ pc = "publish"
    /\ pc' = "returned"
    /\ UNCHANGED <<formVars, outVars, valid, accVars, decVars>>

NextDecumulate == CallDecumulation \/ LoopStep \/ Return

\* Forms whose fixed drawdown makes the buffer rule merge one fund of three and
\* leaves the other two to the year-end rebalance, a form that draws a share of
\* the initial pot over two years of high inflation, and one with a custom state
\* pension over two such years.
BufferForms ==
    {RunForm(<<"9", "7">>, <<"9", "8">>, sw, <<"3">>, "fixed", <<"1", "6">>, <<"2">>, "No") :
        sw \in {<<"9", "9">>, <<"1", "0", "5">>}}
    \cup {RunForm(<<"9", "7">>, <<"9", "8">>, <<"9", "9">>, <<"2">>, "initialPot", <<"1", "0">>,
                  <<"2", "0">>, "No"),
          RunForm(<<"9", "7">>, <<"9", "8">>, <<"9", "9">>, <<"2">>, "percentage", <<"4">>,
                  <<"2", "0">>, "Yes - Custom")}

InitDecumulate ==
    /\ formData \in RunForms \cup LongForms \cup BufferForms
    /\ errors = EmptyErrors
    /\ accumulationChartData = Null
    /\ accumulationTableData = Null
    /\ decumulationChartData = Null
    /\ monthlyIncomeChartData = Null
    /\ annualIncomeChartData = Null
    /\ pc = "idle"
    /\ valid = "none"
    /\ changes = 0
    /\ NoRun

SpecDecumulate == InitDecumulate /\ [][NextDecumulate]_vars

(***************************************************************************)
(* Claims on validateInputs (SpecValidate)                                 *)
(***************************************************************************)
\* C1: a call of validateInputs has exactly one of two outcomes: it returns true
\* and records an empty error map, or it returns false and records an error map
\* with at least one field.
C1_TwoOutcomes ==
    [][ValidateInputs =>
          \/ valid' = "true" /\ DOMAIN errors' = {}
          \/ valid' = "false" /\ DOMAIN errors' # {}]_vars

\* C1 witness: both outcomes of a call are reached; here the rejecting one, with a
\* range message recorded.
C1_Witness ==
    /\ valid = "false"
    /\ DOMAIN errors = {"inflationRate"}
    /\ errors["inflationRate"] = "Inflation Rate must be between 0% and 20%."

\* The fields the claim C2 calls required.
C2_Required(fd) ==
    {"age", "salary", "currentPot", "contributionRate", "retirementAge",
     "ageToLowRiskFund", "inflationRate", "numFunds"}
    \cup {f \in {"drawdownPercentage"} : fd.drawdownType = "percentage"}
    \cup {f \in {"drawdownFixed"} : fd.drawdownType = "fixed"}
    \cup {f \in {"drawdownInitialPotPercentage"} : fd.drawdownType = "initialPot"}
    \cup {f \in {"customStatePensionAnnual"} : fd.includeStatePension = "Yes - Custom"}

C2_Unusable(fd) ==
    {f \in C2_Required(fd) : fd[f] = <<>> \/ ParseFloat(fd[f]) = NaN}

\* C2: when a required field is empty or does not parse as a number, the call
\* reports the "must be a valid number" message for exactly those fields and no
\* range message, and returns false.
C2_PresenceOnly ==
    [][(ValidateInputs /\ C2_Unusable(formData) # {}) =>
          /\ valid' = "false"
          /\ DOMAIN errors' = C2_Unusable(formData)
          /\ \A f \in DOMAIN errors' :
                errors'[f] = Label(f) \o " must be a valid number."]_vars

\* C2 witness: a form with an empty salary and an age of 0 was validated; only the
\* salary is reported, although the unselected drawdown parameters are empty too.
C2_Witness ==
    /\ valid = "false"
    /\ formData.salary = <<>>
    /\ ParseInt(formData.age) = 0
    /\ formData.drawdownType = "fixed"
    /\ formData.drawdownPercentage = <<>>
    /\ DOMAIN errors = {"salary"}

\* A comparison of two form values holds when it holds of the integers parseInt
\* reads or of the numbers parseFloat reads.
C3_Gt(a, b) == JsGt(ParseInt(a), ParseInt(b)) \/ JsGt(ParseFloat(a), ParseFloat(b))
C3_Ge(a, b) == JsGe(ParseInt(a), ParseInt(b)) \/ JsGe(ParseFloat(a), ParseFloat(b))
C3_Between(a, lo, hi, strictLo) ==
    LET v == ParseFloat(a)
    IN  (IF strictLo THEN JsGt(v, lo * Scale) ELSE JsGe(v, lo * Scale)) /\ JsLe(v, hi * Scale)

C3_InRange(fd) ==
    /\ C3_Gt(fd.age, <<"0">>)
    /\ C3_Gt(fd.retirementAge, fd.age)
    /\ JsGt(ParseFloat(fd.salary), 0)
    /\ JsGe(ParseFloat(fd.currentPot), 0)
    /\ C3_Between(fd.contributionRate, 0, 100, TRUE)
    /\ C3_Ge(fd.ageToLowRiskFund, fd.retirementAge)
    /\ C3_Between(fd.inflationRate, 0, 20, FALSE)
    /\ C3_Ge(fd.numFunds, <<"1">>) /\ C3_Ge(<<"5">>, fd.numFunds)
    /\ fd.drawdownType = "percentage" => C3_Between(fd.drawdownPercentage, 0, 100, TRUE)
    /\ fd.drawdownType = "fixed" => JsGt(ParseFloat(fd.drawdownFixed), 0)
    /\ fd.drawdownType = "initialPot" =>
          C3_Between(fd.drawdownInitialPotPercentage, 0, 100, TRUE)
    /\ fd.includeStatePension = "Yes - Custom" =>
          JsGt(ParseFloat(fd.customStatePensionAnnual), 0)

\* C3: every form state validateInputs accepts is within all the ranges.
C3_AcceptedInRange ==
    [][(ValidateInputs /\ valid' = "true") => C3_InRange(formData)]_vars

(***************************************************************************)
(* Claims on handleCalculate and simulateAccumulation (Spec)               *)
(***************************************************************************)
\* C4: a call of handleCalculate on a form that validateInputs rejects ends at
\* once: no simulation is started and none of the five output slots changes.
C4_RejectedKeepsOutputs ==
    [][(HandleCalculate /\ valid' = "false") =>
          /\ pc' = "idle"
          /\ UNCHANGED <<outVars, accVars, decVars, formData>>]_vars

\* C4 witness: a rejected call after an earlier run has filled the output slots.
C4_Witness ==
    /\ pc = "idle"
    /\ valid = "false"
    /\ "retirementAge" \in DOMAIN errors
    /\ accumulationChartData # Null
    /\ annualIncomeChartData # Null

\* The years of the claim C5: retirementAge - age on the values of the form.
C5_Years == Years(formData)

\* C5: after simulateAccumulation on an accepted form with years > 0, p25, p50
\* and p75 each have exactly years entries, and p25[i] <= p50[i] <= p75[i] for
\* every year i.
C5_LengthAndOrder ==
    (pc = "decumulate" /\ JsGt(C5_Years, 0)) =>
        /\ Len(p25) * Scale = C5_Years
        /\ Len(p50) * Scale = C5_Years
        /\ Len(p75) * Scale = C5_Years
        /\ \A i \in 1..Len(p50) : p25[i] <= p50[i] /\ p50[i] <= p75[i]

\* The number of paths whose value of year y is below v, and at most v.
C6_Below(y, v) == Cardinality({r \in 1..Len(results) : results[r][y] < v})
C6_AtMost(y, v) == Cardinality({r \in 1..Len(results) : results[r][y] <= v})

\* v is the element at 0-based index k of the values of year y sorted ascending.
C6_AtIndex(y, v, k) == C6_Below(y, v) <= k /\ C6_AtMost(y, v) >= k + 1

\* C6: with the 1000 paths of a call, p25, p50 and p75 of every year are the
\* elements at the 0-based indices 250, 500 and 750 (floor(percentile * N)) of
\* that year's path values sorted ascending.
C6_NearestRank ==
    pc = "decumulate" =>
        /\ Len(results) = 1000
        /\ \A y \in 1..Len(p50) :
              /\ C6_AtIndex(y, p25[y], (25 * Len(results)) \div 100)
              /\ C6_AtIndex(y, p25[y], 250)
              /\ C6_AtIndex(y, p50[y], 500)
              /\ C6_AtIndex(y, p75[y], 750)

\* C6 witness: a year whose sorted values change exactly between the indices 499
\* and 500, so that the average of the two middle values is not p50.
C6_Witness ==
    /\ pc = "decumulate"
    /\ Len(p50) >= 1
    /\ C6_Below(1, p50[1]) = 500
    /\ p25[1] < p50[1]
    /\ p50[1] < p75[1]

(***************************************************************************)
(* Claims on simulateDecumulation (Spec, FairSpec, SpecLong)               *)
(***************************************************************************)
\* C7: the withdrawal step takes at most the balance of fund 0, subtracts it from
\* fund 0 only, leaves every other fund unchanged, and does not raise the total.
C7_WithdrawFromFundZero ==
    [][pc = "withdraw" =>
          /\ withdrawal' <= pots[1]
          /\ Len(pots') = Len(pots)
          /\ pots'[1] = pots[1] - withdrawal'
          /\ \A i \in 2..Len(pots) : pots'[i] = pots[i]
          /\ Total(pots') <= Total(pots)]_vars

\* C7 witness: a month whose withdrawal was capped at the balance of fund 0 while
\* another fund still holds money.
C7_Witness ==
    /\ pc = "returns"
    /\ withdrawal > 0
    /\ withdrawal < currentDrawdownFixed
    /\ pots[1] = 0
    /\ Len(pots) >= 2
    /\ pots[2] > 0

\* The simulated age of the recorded month m (counted from 1), on fixed point.
C8_AgeOfMonth(m) == (retirementAge + ((m - 1) \div 12)) * Scale

\* C8: in every recorded month whose simulated age is at least the
\* ageToLowRiskFund of the form, every fund above fund 0 is recorded as zero.
C8_SweptFromSwitchAge ==
    \A i \in 2..Len(fundBalances) : \A m \in 1..Len(fundBalances[i]) :
        C8_AgeOfMonth(m) >= ParseFloat(formData.ageToLowRiskFund)
            => fundBalances[i][m] = 0

\* The steps of the loop body before the month is recorded.
C9_BeforeRecord ==
    {"withdraw", "returns", "rebalance", "consolidate", "sweep", "yearEnd", "record"}

\* The loop has run, or is running.
C9_InLoop == pc \in C9_BeforeRecord \cup {"while", "check"}
C9_Finished == pc = "publish" /\ ~Degenerate(startingPot)

\* Every recorded series has the length of the withdrawal series.
C9_SeriesAgree ==
    /\ \A i \in 1..Len(fundBalances) : Len(fundBalances[i]) = Len(withdrawals)
    /\ Len(statePensionMonthlyValues) = Len(withdrawals)

C10_Iterations ==
    Len(withdrawals) + (IF pc \in C9_BeforeRecord THEN 1 ELSE 0)

\* C10 as stated: the loop executes at most 420 monthly iterations.
C10_AtMost420 == C10_Iterations <= 420

\* C10 amended: the loop executes at most (100 - retirementAge) * 12 monthly
\* iterations, which is at most 420 when retirementAge is at least 65.
C10_Amended ==
    (C9_InLoop \/ C9_Finished) =>
        /\ C10_Iterations <= Max(0, maxMonths)
        /\ retirementAge >= 65 => C10_Iterations <= 420

\* C10 witness: a retirement at 65 whose loop ran all 420 months.
C10_Witness ==
    /\ C9_Finished
    /\ retirementAge = 65
    /\ C10_Iterations = 420

(***************************************************************************)
(* Claims on the result of simulateDecumulation (SpecDecumulate)           *)
(***************************************************************************)
\* A starting pot that is absent, NaN, zero or negative.
C11_NoPot(start) == start = Undefined \/ start = NaN \/ start <= 0

\* Every value of a series is 0, and the series is not empty.
C11_Zeros(series) == series # <<>> /\ \A i \in 1..Len(series) : series[i] = 0

\* C11: simulateDecumulation called with a starting pot that is absent, NaN, zero
\* or negative does not enter the monthly loop and returns a result of which
\* every series holds zeros only.
C11_DegenerateAllZero ==
    (pc \in {"while", "check", "publish", "returned"} \cup C9_BeforeRecord
       /\ C11_NoPot(startingPot)) =>
        /\ pc \in {"publish", "returned"}
        /\ withdrawals = <<>> /\ months = 0
        /\ decumulationResults # Null
        /\ decumulationResults.funds # <<>>
        /\ \A i \in 1..Len(decumulationResults.funds) :
              C11_Zeros(decumulationResults.funds[i])
        /\ C11_Zeros(decumulationResults.withdrawals)
        /\ C11_Zeros(decumulationResults.annualWithdrawals)
        /\ C11_Zeros(decumulationResults.statePensionMonthlyValues)
        /\ C11_Zeros(decumulationResults.statePensionAnnualValues)

\* C11 witness: a call with a negative starting pot has returned.
C11_Witness ==
    /\ pc = "returned"
    /\ startingPot < 0
    /\ startingPot # NaN /\ startingPot # Undefined
    /\ decumulationResults.withdrawals = <<0>>

\* C12: every result returned by simulateDecumulation has one balance series per
\* fund, all of one length, which is also the length of the monthly withdrawal
\* series and of the monthly state pension series.
C12_SeriesPerFund ==
    (pc \in {"publish", "returned"} /\ decumulationResults # Null) =>
        /\ Len(decumulationResults.funds) = numFunds
        /\ \A i \in 1..Len(decumulationResults.funds) :
              Len(decumulationResults.funds[i]) = Len(decumulationResults.withdrawals)
        /\ Len(decumulationResults.statePensionMonthlyValues)
             = Len(decumulationResults.withdrawals)

\* The form asks for a single fund.
C13_OneFund == ParseInt(formData.numFunds) = 1

\* C13: with numFunds = 1 the consolidation step and the de-risk sweep change
\* nothing in any month, and every recorded month holds the whole pot in fund 0.
C13_SingleFund ==
    /\ [](C13_OneFund /\ C9_InLoop =>
            Len(pots) = 1 /\ Len(fundBalances) = 1 /\ movedFunds = <<>>)
    /\ [][(C13_OneFund /\ pc \in {"consolidate", "sweep"}) =>
            pots' = pots /\ movedFunds' = movedFunds]_vars
    /\ [][(C13_OneFund /\ pc = "record") =>
            /\ Len(fundBalances'[1]) = Len(fundBalances[1]) + 1
            /\ fundBalances'[1][Len(fundBalances'[1])] = Total(pots)]_vars

\* C13 witness: a month of a single-fund run in which fund 0 is below twelve
\* withdrawals and the switch age is reached, after the two steps.
C13_Witness ==
    /\ C13_OneFund
    /\ pc = "yearEnd"
    /\ JsGe(age, switchAge)
    /\ pots[1] > 0
    /\ pots[1] < withdrawal * 12

(***************************************************************************)
(* Further claims on simulateAccumulation and validateInputs               *)
(***************************************************************************)
\* A sequence is non-decreasing in its index.
C14_Rises(seq) == \A i \in 1..(Len(seq) - 1) : seq[i + 1] >= seq[i]

\* C14 as stated: after simulateAccumulation on an accepted form with years > 0,
\* each of p25, p50 and p75 is non-decreasing in the year index.
C14_Stated ==
    (pc = "decumulate" /\ JsGt(C5_Years, 0)) =>
        C14_Rises(p25) /\ C14_Rises(p50) /\ C14_Rises(p75)

\* C14 amended: each of p25, p50 and p75 is non-decreasing in the year index
\* whenever every simulated path is, as it is when no drawn return is negative.
C14_Amended ==
    (pc = "decumulate" /\ JsGt(C5_Years, 0)
       /\ \A r \in 1..Len(results) : C14_Rises(results[r])) =>
        C14_Rises(p25) /\ C14_Rises(p50) /\ C14_Rises(p75)

\* C14 witness: two years of rising paths with distinct percentiles.
C14_Witness ==
    /\ pc = "decumulate"
    /\ Len(p50) = 2
    /\ \A r \in 1..Len(results) : C14_Rises(results[r])
    /\ p25[1] < p75[1]
    /\ p25[2] > p25[1] /\ p50[2] > p50[1] /\ p75[2] > p75[1]

\* The form was accepted by the last call of validateInputs and has not been
\* edited since: every edit leaves an entry in errors.
C15_JustAccepted == valid = "true" /\ DOMAIN errors = {}

\* C15: validateInputs called again on a form it has just accepted, with or
\* without a simulation in between, returns true and records an empty error map.
C15_AcceptedAgain ==
    [][(HandleCalculate /\ C15_JustAccepted) =>
          /\ formData' = formData
          /\ valid' = "true"
          /\ DOMAIN errors' = {}
          /\ pc' = "accumulate"]_vars

\* C15 witness: the form is accepted a second time, after a completed simulation.
C15_Witness ==
    /\ pc = "accumulate"
    /\ valid = "true"
    /\ DOMAIN errors = {}
    /\ changes = 0
    /\ accumulationTableData # Null

(***************************************************************************)
(* Claims on the monthly steps of simulateDecumulation                     *)
(***************************************************************************)
\* The funds (indices of pots above the first) that are not flagged as moved and
\* hold a positive balance.
C16_Candidates == {j \in 2..Len(pots) : ~movedFunds[j - 1] /\ pots[j] > 0}

\* Fund j, and no other, is merged into fund 0.
C16_Merged(j) ==
    /\ pots'[1] = pots[1] + pots[j]
    /\ pots'[j] = 0
    /\ movedFunds'[j - 1] = TRUE
    /\ \A k \in 2..Len(pots) : k # j =>
          pots'[k] = pots[k] /\ movedFunds'[k - 1] = movedFunds[k - 1]

\* C16: the buffer rule merges the lowest-index unflagged fund with a positive
\* balance into fund 0, and that fund only, exactly when fund 0 is below twelve
\* times the withdrawal of the month; otherwise it changes nothing.
C16_BufferRule ==
    [][pc = "consolidate" =>
          /\ Len(pots') = Len(pots) /\ Len(movedFunds') = Len(movedFunds)
          /\ IF pots[1] < 12 * withdrawal /\ C16_Candidates # {}
             THEN \E j \in C16_Candidates :
                     /\ \A k \in C16_Candidates : j <= k
                     /\ C16_Merged(j)
             ELSE pots' = pots /\ movedFunds' = movedFunds]_vars

\* C16 witness: the rule has merged fund 1 and left fund 2, which also was a
\* candidate, alone.
C16_Witness ==
    /\ pc = "sweep"
    /\ Len(pots) = 3
    /\ movedFunds = <<TRUE, FALSE>>
    /\ pots[2] = 0
    /\ pots[3] > 0
    /\ pots[1] < 12 * withdrawal

\* The positions of simulateDecumulation from the loop test to the end of a month.
C17_InSimulation ==
    pc \in {"while", "withdraw", "returns", "rebalance", "consolidate", "sweep",
            "yearEnd", "record", "check"}

\* C17: a fund above fund 0 is emptied into fund 0 at most once.  A step that
\* empties it finds it unflagged and flags it; a flag stays; a flagged fund is
\* empty; an empty fund stays empty through every step of the simulation, the
\* year-end rebalance included; and in its recorded series nothing follows a zero
\* but zeros.
C17_MergedOnce ==
    /\ [](C17_InSimulation =>
            /\ \A i \in 2..Len(pots) : movedFunds[i - 1] => pots[i] = 0
            /\ \A i \in 2..Len(fundBalances) :
                  \A m \in 1..Len(fundBalances[i]) : \A n \in m..Len(fundBalances[i]) :
                     fundBalances[i][m] = 0 => fundBalances[i][n] = 0)
    /\ [][C17_InSimulation =>
            /\ Len(pots') = Len(pots)
            /\ \A i \in 2..Len(pots) :
                  /\ pots[i] = 0 => pots'[i] = 0
                  /\ movedFunds[i - 1] => movedFunds'[i - 1]
                  /\ (pots[i] > 0 /\ pots'[i] = 0) =>
                        /\ ~movedFunds[i - 1] /\ movedFunds'[i - 1]
                        /\ pots'[1] >= pots[1] + pots[i]]_vars

\* C17 witness: a year-end rebalance has just run over two funds with money while
\* a third, merged by the buffer rule, stayed empty, and months were recorded
\* since the merge.
C17_Witness ==
    /\ pc = "consolidate"
    /\ months % 12 = 11
    /\ Len(pots) = 3
    /\ movedFunds = <<TRUE, FALSE>>
    /\ pots[2] = 0
    /\ pots[1] > 0 /\ pots[3] > 0 /\ pots[1] = pots[3]
    /\ Len(fundBalances[2]) >= 11
    /\ fundBalances[2][1] = 0

\* The funds that hold a positive balance.
C18_Active == {i \in 1..Len(pots) : pots[i] > 0}

\* C18: the rebalance step changes the funds only in a month whose index is 11
\* modulo 12 and only if more than one fund holds a positive balance; then every
\* fund with a positive balance gets the total divided by the number of such funds
\* and every empty fund stays empty.
C18_Rebalance ==
    [][pc = "rebalance" =>
          IF months % 12 = 11 /\ Cardinality(C18_Active) > 1
          THEN /\ Len(pots') = Len(pots)
               /\ \A i \in 1..Len(pots) :
                     pots'[i] = IF i \in C18_Active
                                THEN SumSeq(pots) \div Cardinality(C18_Active)
                                ELSE 0
          ELSE pots' = pots]_vars

\* C18 witness: three funds that differed in the month before have just been
\* made equal by the rebalance of month 11.
C18_Witness ==
    /\ pc = "consolidate"
    /\ months = 11
    /\ Len(pots) = 3
    /\ pots[1] > 0 /\ pots[1] = pots[2] /\ pots[2] = pots[3]
    /\ Len(fundBalances[1]) = 11
    /\ fundBalances[1][11] # fundBalances[2][11]
    /\ fundBalances[2][11] # fundBalances[3][11]

\* base * (1 + inflationRate)^k, the power taken by k multiplications.
RECURSIVE C19_Inflated(_, _)
C19_Inflated(base, k) ==
    IF k = 0 THEN base
    ELSE LET b == C19_Inflated(base, k - 1)
         IN  b + ((b * inflationRate) \div (100 * Scale))

\* The withdrawal the drawdown policy asks for in the month that is about to begin.
C19_Expected ==
    IF formData.drawdownType = "percentage"
    THEN (SumSeq(pots) * ParseFloat(formData.drawdownPercentage)) \div (100 * 12 * Scale)
    ELSE IF formData.drawdownType = "fixed"
         THEN C19_Inflated(ParseFloat(formData.drawdownFixed), months \div 12)
         ELSE C19_Inflated(
                ((startingPot * ParseFloat(formData.drawdownInitialPotPercentage))
                    \div (100 * Scale)) \div 12,
                months \div 12)

\* C19: the withdrawal of month m, before it is capped at fund 0, is the share
\* drawdownPercentage/100/12 of the total at the start of the month for the
\* percentage policy, drawdownFixed * (1 + inflationRate)^floor(m/12) for the
\* fixed policy, and (startingPot * drawdownInitialPotPercentage/100/12) *
\* (1 + inflationRate)^floor(m/12) for the initial-pot policy.
C19_PolicyWithdrawal ==
    [][pc = "withdraw" =>
          withdrawal' = IF C19_Expected < pots[1] THEN C19_Expected ELSE pots[1]]_vars

\* C19 witness: in the second year the initial-pot policy has withdrawn, uncapped,
\* more than its base, from a pot that is no longer the starting pot.
C19_Witness ==
    /\ pc = "returns"
    /\ formData.drawdownType = "initialPot"
    /\ months >= 12
    /\ inflationRate > 0
    /\ withdrawal > baseDrawdownFixed(startingPot)
    /\ pots[1] > 0
    /\ SumSeq(pots) + withdrawal < startingPot

\* s[lo] + ... + s[hi], summed by halves.
RECURSIVE C20_Sum(_, _, _)
C20_Sum(s, lo, hi) ==
    IF lo > hi THEN 0
    ELSE IF lo = hi THEN s[lo]
    ELSE C20_Sum(s, lo, (lo + hi) \div 2) + C20_Sum(s, ((lo + hi) \div 2) + 1, hi)

\* The number of years that n recorded months have begun.
C20_YearsBegun(n) == (n + 11) \div 12

\* The sum of the monthly withdrawals w of year k (counted from 1), the last year
\* ending with the last recorded month.
C20_YearSum(w, k) ==
    C20_Sum(w, 12 * (k - 1) + 1, IF 12 * k < Len(w) THEN 12 * k ELSE Len(w))

\* C20: in every result returned by simulateDecumulation the annual withdrawal
\* series has one entry for every year begun by a recorded month, entry k being
\* the sum of the monthly withdrawals of that year, so that the two series have
\* the same sum.
C20_AnnualPartition ==
    (pc \in {"publish", "returned"} /\ decumulationResults # Null) =>
        LET w == decumulationResults.withdrawals
            a == decumulationResults.annualWithdrawals
        IN  /\ Len(a) = C20_YearsBegun(Len(w))
            /\ \A k \in 1..Len(a) : a[k] = C20_YearSum(w, k)
            /\ C20_Sum(a, 1, Len(a)) = C20_Sum(w, 1, Len(w))

(***************************************************************************)
(* Claims on the state pension series                                      *)
(***************************************************************************)
\* The annual state pension of year 0 under the policy of the form.
C21_YearZero ==
    IF formData.includeStatePension = "No" THEN 0
    ELSE IF formData.includeStatePension = "Yes - Standard" THEN 11960 * Scale
    ELSE ParseFloat(formData.customStatePensionAnnual)

\* amount * (1 + inflationRate)^k, the power taken by k multiplications.
RECURSIVE C21_Inflated(_, _)
C21_Inflated(amount, k) ==
    IF k = 0 THEN amount
    ELSE LET b == C21_Inflated(amount, k - 1)
         IN  b + ((b * ParseFloat(formData.inflationRate)) \div (100 * Scale))

\* C21: the annual state pension recorded for year k is the amount of the policy
\* (0 for "No", 11960 for "Yes - Standard", the custom annual amount for
\* "Yes - Custom") times (1 + inflationRate)^k, and with "No" every recorded
\* monthly and annual value is 0.
C21_PensionSeries ==
    /\ \A k \in 1..Len(statePensionAnnualValues) :
          statePensionAnnualValues[k] = C21_Inflated(C21_YearZero, k - 1)
    /\ formData.includeStatePension = "No" =>
          /\ \A k \in 1..Len(statePensionAnnualValues) : statePensionAnnualValues[k] = 0
          /\ \A m \in 1..Len(statePensionMonthlyValues) : statePensionMonthlyValues[m] = 0

\* C21 witness: two years of a custom state pension are recorded, the second
\* above the first.
C21_Witness ==
    /\ formData.includeStatePension = "Yes - Custom"
    /\ Len(statePensionAnnualValues) = 2
    /\ statePensionAnnualValues[1] = ParseFloat(formData.customStatePensionAnnual)
    /\ statePensionAnnualValues[2] > statePensionAnnualValues[1]

(***************************************************************************)
(* Claims on the accumulation paths                                        *)
(***************************************************************************)
\* The salary of year y (from 0): the starting salary times
\* (1 + inflationRate/100)^y, the power taken by y multiplications.
RECURSIVE C22_Salary(_)
C22_Salary(y) ==
    IF y = 0 THEN ParseFloat(formData.salary)
    ELSE LET b == C22_Salary(y - 1)
         IN  b + ((b * ParseFloat(formData.inflationRate)) \div (100 * Scale))

\* (previous pot + contribution of year y) * (1 + r), for the return r = rn / den.
C22_Pot(run, y, rn, den) ==
    LET previous == IF y = 0 THEN ParseFloat(formData.currentPot) ELSE run[y]
        contribution ==
            (C22_Salary(y) * ParseFloat(formData.contributionRate)) \div (100 * Scale)
    IN  (previous + contribution) + (((previous + contribution) * rn) \div den)

\* C22: on every accumulation path the pot recorded for year y is (previous pot +
\* contribution) * (1 + r), where the contribution is contributionRate/100 of the
\* salary of year y, the salary of year y is the starting salary times
\* (1 + inflationRate/100)^y, and the drawn return r lies between meanReturn -
\* volatility and meanReturn + volatility of the chosen fund.
C22_Path ==
    results # <<>> =>
        LET fund == fundData(formData.fundSelection)
        IN  \E seed \in Seeds :
               \A i \in 1..Len(results) : \A y \in 0..(Len(results[i]) - 1) :
                  LET draw == Random(seed, i - 1, y)
                      rn == fund.return * RandDen + fund.volatility * (2 * draw - RandDen)
                  IN  /\ (fund.return - fund.volatility) * RandDen <= rn
                      /\ rn <= (fund.return + fund.volatility) * RandDen
                      /\ results[i][y + 1] = C22_Pot(results[i], y, rn, RateDen * RandDen)

\* C22 witness: paths of two years have been simulated with a salary that inflation
\* raised after the first year, and the first path has grown in the second year.
C22_Witness ==
    /\ pc = "decumulate"
    /\ Len(results) = simulations
    /\ Len(results[1]) = 2
    /\ C22_Salary(1) > C22_Salary(0)
    /\ results[1][2] > results[1][1]

(***************************************************************************)
(* Claims on the fund balances                                             *)
(***************************************************************************)
\* C23: no fund balance is negative, in any state of the decumulation loop and in
\* any recorded month.
C23_NoNegativeBalance ==
    /\ \A i \in 1..Len(pots) : pots[i] >= 0
    /\ \A i \in 1..Len(fundBalances) :
          \A m \in 1..Len(fundBalances[i]) : fundBalances[i][m] >= 0

\* C23 witness: the drawdown policy asked for more than fund 0 held while another
\* fund held money; the withdrawal took fund 0 down to zero and no further.
C23_Witness ==
    /\ pc = "returns"
    /\ formData.drawdownType = "fixed"
    /\ currentDrawdownFixed > withdrawal
    /\ withdrawal > 0
    /\ pots[1] = 0
    /\ Len(pots) > 1
    /\ pots[2] > 0

(***************************************************************************)
(* SpecForm: the untouched form receives change events without end         *)
(***************************************************************************)
\* handleChange(e) as an event of its own, with no bound on the number of events.
Change(name, value) ==
    /\ pc = "idle"
    /\ formData' = ChangedFormData(formData, name, value)
    /\ errors' = ClearError(errors, name)
    /\ UNCHANGED <<outVars, pc, valid, changes, accVars, decVars>>

\* The select named numFunds (lines 524-538) is set to one of its options, 1 to 5.
ChangeNumFunds == \E v \in {<<"1">>, <<"2">>, <<"3">>, <<"4">>, <<"5">>} : Change("numFunds", v)

\* The fund selects rendered at lines 540-556: fund0 .. fund(numFunds - 1).
FundSlots == {"fund0", "fund1", "fund2", "fund3", "fund4"}
SlotChoices == {"Future Advantage 2", "Future Advantage 4"}
ChangeFundSlot ==
    \E name \in FundSlots : \E v \in SlotChoices :
       /\ JsLt(FundIndex(name), ParseInt(formData.numFunds))
       /\ Change(name, v)

\* Changes of other fields: the accumulation fund select and a number input.
ChangeOther ==
    \/ \E v \in {"Future Advantage 1"} : Change("fundSelection", v)
    \/ \E v \in {<<"7", "0">>} : Change("ageToLowRiskFund", v)

InitForm ==
    /\ formData = InitialFormData
    /\ errors = EmptyErrors
    /\ accumulationChartData = Null
    /\ accumulationTableData = Null
    /\ decumulationChartData = Null
    /\ monthlyIncomeChartData = Null
    /\ annualIncomeChartData = Null
    /\ pc = "idle"
    /\ valid = "none"
    /\ changes = 0
    /\ NoRun

NextForm == ChangeNumFunds \/ ChangeFundSlot \/ ChangeOther

SpecForm == InitForm /\ [][NextForm]_vars

(***************************************************************************)
(* Claims on the change events                                             *)
(***************************************************************************)
\* C24: a change event on the field fundSelection with value v leaves the form
\* with fundSelection = v and with the decumulation fund list it had.
C24_SelectorChange ==
    [][\A v \in FundNames :
          HandleChange("fundSelection", v) =>
             /\ formData'.fundSelection = v
             /\ formData'.funds = formData.funds]_vars

\* The number of funds with a positive balance.
C25_ActiveFunds == Cardinality({i \in 1..Len(pots) : pots[i] > 0})

\* C25: the buffer rule and the sweep leave the sum of the fund balances as it
\* is, and so does the year-end rebalance up to the remainder of its division
\* (less than one unit of the fixed point per fund with money); the steps that
\* follow them in the month do not touch the balances; so within a month the
\* total changes only through the withdrawal and the monthly returns.
C25_TotalPreserved ==
    [][/\ pc \in {"consolidate", "sweep"} => SumSeq(pots') = SumSeq(pots)
       /\ pc = "rebalance" =>
             /\ SumSeq(pots') <= SumSeq(pots)
             /\ SumSeq(pots) - SumSeq(pots') < Max(C25_ActiveFunds, 1)
       /\ pc \in {"while", "yearEnd", "record", "check"} => pots' = pots]_vars

\* C25 witness: two funds that held money in the month before have just been
\* swept into fund 0.
C25_Witness ==
    /\ pc = "yearEnd"
    /\ Len(pots) = 3
    /\ movedFunds = <<TRUE, TRUE>>
    /\ pots[1] > 0 /\ pots[2] = 0 /\ pots[3] = 0
    /\ months >= 1
    /\ Len(fundBalances[2]) = months
    /\ fundBalances[2][months] > 0
    /\ fundBalances[3][months] > 0

(***************************************************************************)
(* Claims on the withdrawals                                               *)
(***************************************************************************)
\* Fund 0 holds money at the start of the iteration.
C26_FundZeroPositive == pc = "withdraw" => pots[1] > 0

\* C26 as stated: at the start of every iteration of the loop fund 0 holds a
\* positive balance, and the withdrawal recorded in every month is strictly
\* positive.
C26_Stated ==
    /\ C26_FundZeroPositive
    /\ \A m \in 1..Len(withdrawals) : withdrawals[m] > 0

\* C26 amended: at the start of every iteration of the loop fund 0 holds a
\* positive balance, a fund above it holds money only if it is not flagged as
\* moved, no recorded withdrawal is negative, and the withdrawal of a month is
\* zero only if the amount the drawdown policy asks for is zero.
C26_Amended ==
    /\ [](/\ C26_FundZeroPositive
          /\ \A i \in 2..Len(pots) : pots[i] > 0 => ~movedFunds[i - 1]
          /\ \A m \in 1..Len(withdrawals) : withdrawals[m] >= 0)
    /\ [][pc = "withdraw" => (withdrawal' = 0 => C19_Expected = 0)]_vars

\* C26 witness: the withdrawal was capped at the balance of fund 0, which it
\* emptied, and the buffer rule has refilled fund 0 from fund 1 in the same month.
C26_Witness ==
    /\ pc = "sweep"
    /\ formData.drawdownType = "fixed"
    /\ months % 12 # 11
    /\ 0 < withdrawal /\ withdrawal < currentDrawdownFixed
    /\ Len(pots) = 2
    /\ movedFunds = <<TRUE>>
    /\ pots[1] > 0 /\ pots[2] = 0

(***************************************************************************)
(* Claims on the annual and monthly state pension series of a result       *)
(***************************************************************************)
\* C27: in every result returned by simulateDecumulation the annual state pension
\* series has as many entries as the annual withdrawal series.
C27_SameYears ==
    (pc \in {"publish", "returned"} /\ decumulationResults # Null) =>
        Len(decumulationResults.statePensionAnnualValues)
          = Len(decumulationResults.annualWithdrawals)

\* The monthly state pension of year k: one twelfth of the initial annual amount,
\* times (1 + inflationRate)^k, the power taken by k multiplications.
RECURSIVE C28_Monthly(_)
C28_Monthly(k) ==
    IF k = 0 THEN C21_YearZero \div 12
    ELSE LET b == C28_Monthly(k - 1)
         IN  b + ((b * ParseFloat(formData.inflationRate)) \div (100 * Scale))

\* C28: the monthly state pension recorded for month m (from 0) is that of year
\* floor(m/12), so it is the same for the twelve months of a year.
C28_MonthlyOfYear ==
    \A m \in 1..Len(statePensionMonthlyValues) :
       statePensionMonthlyValues[m] = C28_Monthly((m - 1) \div 12)

(***************************************************************************)
(* Claims on the calculation as a whole                                    *)
(***************************************************************************)
\* C29: a calculation that validateInputs has let through records at least one
\* month in every per-fund series and in the monthly withdrawal series, and the
\* age of every recorded month lies between retirementAge and 99.
C29_NonEmptyDecumulation ==
    /\ (pc = "publish" /\ valid = "true" /\ decumulationResults # Null) =>
          /\ Len(decumulationResults.withdrawals) >= 1
          /\ \A i \in 1..Len(decumulationResults.funds) :
                Len(decumulationResults.funds[i]) >= 1
    /\ pc = "record" => (JsLe(retirementAge, age) /\ JsLe(age, 99))

\* C30: after any sequence of change events the decumulation fund list has
\* exactly numFunds entries, each of them one of the five funds of fundData.
C30_FundList ==
    /\ Len(formData.funds) = ParseInt(formData.numFunds)
    /\ \A i \in 1..Len(formData.funds) : formData.funds[i] \in FundNames

\* C30 witness: the list was cut to one fund, grown to five, its last slot was
\* changed, and the accumulation fund select and another field were changed too.
C30_Witness ==
    /\ formData.numFunds = <<"5">>
    /\ formData.funds = <<"Future Advantage 1", "Future Advantage 1", "Future Advantage 1",
                          "Future Advantage 1", "Future Advantage 2">>
    /\ {"fundSelection", "ageToLowRiskFund", "fund4", "numFunds"} \subseteq DOMAIN errors
====
